---- MODULE Spec2Model ----
(***************************************************************************)
(* Model of scripts/analyze_logs.py, the RAG stack ingestion script.       *)
(*                                                                         *)
(* The module has three operations: get_firestore_client (lines 18-32),    *)
(* ingest_log_entry (lines 34-68) and main (lines 70-102).  They are run   *)
(* either by the script itself (`python analyze_logs.py`, caller "main")   *)
(* or by code that imports the module and calls get_firestore_client and   *)
(* ingest_log_entry directly (caller "import").                            *)
(*                                                                         *)
(* A printed line is a tuple of the pieces its f-string is built from, so  *)
(* "the line contains the message_id" is membership of the id among the    *)
(* pieces.  An optional field of a log entry is << >> when the key is      *)
(* absent from the dict and <<v>> when it is present with value v.  A      *)
(* metadata mapping is the set of its <<key, value>> pairs.  A vector      *)
(* [0.1, 0.2] is written <<1, 2>> (tenths).                                *)
(***************************************************************************)
EXTENDS Integers, Sequences, FiniteSets, TLC

VARIABLES
    caller,         \* "main": run as a script; "import": functions called by an importer
    env_app_id,     \* os.environ.get("__app_id"): << >> when unset, <<v>> when set
    env_user_id,    \* os.environ.get("USER_ID"):  << >> when unset, <<v>> when set
    client_env,     \* what constructing the client does here: "ok", "ImportError", "Exception"
    faults,         \* the external store: message id -> "ok" or the error set() raises for it
    example_entries,\* main's batch (line 87)
    pc,             \* position of the running caller
    db,             \* TRUE once get_firestore_client has returned a client
    idx,            \* main's for loop: index of the next entry of example_entries
    success_count,  \* main's counter (line 95)
    now,            \* the clock: value the next datetime.now() returns
    store,          \* the external store: document path -> stored document
    writes,         \* history: every doc_ref.set call, in order
    calls,          \* history: every ingest_log_entry call, in order, with how it ended
    stdout,         \* the lines printed, in order
    stderr,         \* the interpreter's report of an uncaught exception
    exit_code       \* process exit status; -1 while the process runs

vars == <<caller, env_app_id, env_user_id, client_env, faults, example_entries,
          pc, db, idx, success_count, now, store, writes, calls, stdout, stderr,
          exit_code>>

(***************************************************************************)
(* Bounds of the model.                                                    *)
(***************************************************************************)
MaxBatch == 2       \* longest batch main is run on
MaxCalls == 2       \* most direct ingest_log_entry calls an importer makes

(***************************************************************************)
(* Module level: lines 6-16.                                               *)
(***************************************************************************)

\* The names bound in the module's global namespace once it is loaded.
\* Lines 6-8 import os, sys and datetime; `from google.cloud import firestore`
\* (line 24) is executed inside get_firestore_client and binds a local of that
\* function only.
ModuleGlobals ==
    {"os", "sys", "datetime", "APP_ID", "USER_ID", "COLLECTION_PATH",
     "get_firestore_client", "ingest_log_entry", "main"}

\* Evaluating a global name in a function body: NameError unless it is bound.
NameDefined(name) == name \in ModuleGlobals

\* os.getenv(name, default)
getenv(value, default) == IF value = << >> THEN default ELSE value[1]

APP_ID == getenv(env_app_id, "default-app-id")

USER_ID == getenv(env_user_id, "jasonbender-c3x")

CollectionPathFor(app_id) == "artifacts/" \o app_id \o "/public/data/knowledge_buckets"

COLLECTION_PATH == CollectionPathFor(APP_ID)

(***************************************************************************)
(* Log entries.                                                            *)
(***************************************************************************)
Entry(message_id, content, metadata, vector) ==
    [message_id |-> message_id, content |-> content,
     metadata |-> metadata, vector |-> vector]

\* main's built-in batch, lines 87-93.
ExampleEntry ==
    Entry(<<"example_001">>, <<"Sample log entry for testing">>,
          <<{<<"source", "test">>, <<"type", "example">>}>>, << >>)

BuiltinExampleEntries == <<ExampleEntry>>

\* Other entries a caller may pass: no metadata, no message_id, a vector,
\* the same message_id with other content.
BadEntry == Entry(<<"bad_id">>, <<"rejected by the store">>, << >>, << >>)

VectorEntry == Entry(<< >>, << >>, << >>, <<<<1, 2>>>>)

RewriteEntry == Entry(<<"example_001">>, <<"second version">>, << >>, <<<<1, 2>>>>)

Entries == {ExampleEntry, BadEntry, VectorEntry, RewriteEntry}

\* The message ids for which the store's behaviour is chosen; any other id is accepted.
FaultIds == {"example_001", "bad_id"}

StoreErrors == {"PermissionDenied", "Unavailable"}

RECURSIVE SeqsUpTo(_, _)
SeqsUpTo(S, n) ==
    IF n = 0 THEN {<< >>}
    ELSE LET shorter == SeqsUpTo(S, n - 1)
         IN shorter \cup {Append(s, e) : s \in {t \in shorter : Len(t) = n - 1}, e \in S}

(***************************************************************************)
(* ingest_log_entry, lines 34-68.                                          *)
(***************************************************************************)

\* dict.get(key, default) on an optional field
get(field, default) == IF field = << >> THEN default ELSE field[1]

\* Line 42.  The default f"msg_{datetime.now().timestamp()}" is an argument of
\* get(), so the clock is read (at t) whether or not the entry has the key.
MessageIdOf(entry, t) == get(entry.message_id, "msg_" \o ToString(t))

\* Line 45: db.collection(COLLECTION_PATH).document(message_id)
DocPath(collection_path, message_id) == collection_path \o "/" \o message_id

\* datetime.now().isoformat() of the clock reading t
isoformat(t) == "T" \o ToString(t)

\* firestore.SERVER_TIMESTAMP, the sentinel the store replaces by its own time
SERVER_TIMESTAMP == "SERVER_TIMESTAMP"

\* Lines 48-60: the payload, with `vector` only when the entry has the key.
BuildPayload(entry, message_id, t) ==
    LET payload == [user_id    |-> USER_ID,
                    app_id     |-> APP_ID,
                    message_id |-> message_id,
                    content    |-> get(entry.content, ""),
                    metadata   |-> get(entry.metadata, {}),
                    timestamp  |-> isoformat(t),
                    indexed_at |-> SERVER_TIMESTAMP]
    IN IF entry.vector # << >>
          THEN payload @@ [vector |-> entry.vector[1]]
          ELSE payload

\* What doc_ref.set does for a document id: "ok", or the error it raises.
StoreFault(message_id) ==
    IF message_id \in DOMAIN faults THEN faults[message_id] ELSE "ok"

\* Lines 64 and 67 (the leading check mark and cross are left out).
SuccessLine(message_id) == <<"Ingested:", message_id, "to", COLLECTION_PATH>>

FailureLine(message_id, e) == <<"Failed to ingest", message_id, ":", e>>

\* One call ingest_log_entry(db, entry) in the current state: how it ends
\* ("True", "False", or the exception that leaves it) and what it has done by
\* then.  The clock is read at line 42 and again at line 54; the dict display
\* of lines 48-56 evaluates its values in order, so `firestore` (line 55) is
\* looked up after the second reading and before the payload exists.
ingest_log_entry(entry) ==
    LET message_id == MessageIdOf(entry, now)
        path       == DocPath(COLLECTION_PATH, message_id)
        call       == Len(calls) + 1
    IN  IF ~NameDefined("firestore")
        THEN [result |-> "NameError", message_id |-> message_id, now |-> now + 2,
              store |-> store, writes |-> writes, lines |-> << >>]
        ELSE
        LET payload == BuildPayload(entry, message_id, now + 1)
            fault   == StoreFault(message_id)
            write   == [call |-> call, path |-> path, payload |-> payload,
                        outcome |-> fault]
        IN  IF fault = "ok"
            THEN [result |-> "True", message_id |-> message_id, now |-> now + 2,
                  store |-> (path :> payload) @@ store,
                  writes |-> Append(writes, write),
                  lines |-> <<SuccessLine(message_id)>>]
            ELSE [result |-> "False", message_id |-> message_id, now |-> now + 2,
                  store |-> store,
                  writes |-> Append(writes, write),
                  lines |-> <<FailureLine(message_id, fault)>>]

\* The effects of a finished call r on the store, the clock, the output and
\* the histories.
Ingested(entry, r) ==
    /\ now' = r.now
    /\ store' = r.store
    /\ writes' = r.writes
    /\ stdout' = stdout \o r.lines
    /\ calls' = Append(calls, [entry |-> entry, message_id |-> r.message_id,
                               result |-> r.result])

Traceback(exception) == <<"Traceback (most recent call last):", exception>>

(***************************************************************************)
(* get_firestore_client, lines 18-32.                                      *)
(***************************************************************************)
ConstructionError == "DefaultCredentialsError"

\* get_firestore_client with `sys.exit(1)` missing from both handlers: the
\* function prints and returns None, and its caller goes on.
get_firestore_client_no_exit ==
    /\ pc = "connect"
    /\ CASE client_env = "ok" ->
              /\ db' = TRUE
              /\ UNCHANGED stdout
         [] client_env = "ImportError" ->
              /\ stdout' = stdout \o <<<<"ERROR: google-cloud-firestore not installed">>,
                                       <<"Run: pip install google-cloud-firestore">>>>
              /\ UNCHANGED db
         [] client_env = "Exception" ->
              /\ stdout' = Append(stdout,
                     <<"ERROR: Failed to initialize Firestore client:", ConstructionError>>)
              /\ UNCHANGED db
    /\ pc' = IF caller = "main" THEN "loop" ELSE "calling"
    /\ UNCHANGED <<caller, env_app_id, env_user_id, client_env, faults, example_entries,
                   idx, success_count, now, store, writes, calls, stderr, exit_code>>

get_firestore_client ==
    /\ pc = "connect"
    /\ CASE client_env = "ok" ->
              /\ db' = TRUE
              /\ pc' = IF caller = "main" THEN "loop" ELSE "calling"
              /\ UNCHANGED <<stdout, exit_code>>
         [] client_env = "ImportError" ->
              /\ stdout' = stdout \o <<<<"ERROR: google-cloud-firestore not installed">>,
                                       <<"Run: pip install google-cloud-firestore">>>>
              /\ exit_code' = 1
              /\ pc' = "exited"
              /\ UNCHANGED db
         [] client_env = "Exception" ->
              /\ stdout' = Append(stdout,
                     <<"ERROR: Failed to initialize Firestore client:", ConstructionError>>)
              /\ exit_code' = 1
              /\ pc' = "exited"
              /\ UNCHANGED db
    /\ UNCHANGED <<caller, env_app_id, env_user_id, client_env, faults, example_entries,
                   idx, success_count, now, store, writes, calls, stderr>>

(***************************************************************************)
(* main, lines 70-102.                                                     *)
(***************************************************************************)
Rule == "============================================================"

\* Lines 74-80.
Banner ==
    <<<<Rule>>, <<"RAG Stack Ingestion Script (V1.1)">>, <<Rule>>,
      <<"App ID:", APP_ID>>, <<"User ID:", USER_ID>>,
      <<"Collection Path:", COLLECTION_PATH>>, <<Rule>>>>

SummaryLine(successes, total) ==
    <<"Ingestion complete:", ToString(successes), "/", ToString(total), "successful">>

main_banner ==
    /\ pc = "main_start"
    /\ stdout' = stdout \o Banner
    /\ pc' = "connect"
    /\ UNCHANGED <<caller, env_app_id, env_user_id, client_env, faults, example_entries,
                   db, idx, success_count, now, store, writes, calls, stderr, exit_code>>

\* The loop with the call wrapped in `try ... except Exception: continue`: what
\* leaves ingest_log_entry is swallowed and the loop goes on.
main_loop_catching ==
    /\ pc = "loop"
    /\ idx <= Len(example_entries)
    /\ LET entry == example_entries[idx]
           r     == ingest_log_entry(entry)
       IN  /\ Ingested(entry, r)
           /\ success_count' = IF r.result = "True" THEN success_count + 1
                                                    ELSE success_count
           /\ idx' = idx + 1
           /\ UNCHANGED <<pc, stderr, exit_code>>
    /\ UNCHANGED <<caller, env_app_id, env_user_id, client_env, faults, example_entries, db>>

\* Lines 96-98: one iteration of the loop.  An exception leaving
\* ingest_log_entry is caught nowhere in main or at line 105: the interpreter
\* prints the traceback and the process ends with status 1.
main_loop ==
    /\ pc = "loop"
    /\ idx <= Len(example_entries)
    /\ LET entry == example_entries[idx]
           r     == ingest_log_entry(entry)
       IN  /\ Ingested(entry, r)
           /\ IF r.result \in {"True", "False"}
              THEN /\ success_count' = IF r.result = "True" THEN success_count + 1
                                                            ELSE success_count
                   /\ idx' = idx + 1
                   /\ UNCHANGED <<pc, stderr, exit_code>>
              ELSE /\ pc' = "crashed"
                   /\ stderr' = Traceback(r.result)
                   /\ exit_code' = 1
                   /\ UNCHANGED <<idx, success_count>>
    /\ UNCHANGED <<caller, env_app_id, env_user_id, client_env, faults, example_entries, db>>

\* Lines 100-102, then the script falls off its end: status 0.
main_summary ==
    /\ pc = "loop"
    /\ idx > Len(example_entries)
    /\ stdout' = stdout \o <<<<Rule>>, SummaryLine(success_count, Len(example_entries)),
                             <<Rule>>>>
    /\ pc' = "done"
    /\ exit_code' = 0
    /\ UNCHANGED <<caller, env_app_id, env_user_id, client_env, faults, example_entries,
                   db, idx, success_count, now, store, writes, calls, stderr>>

(***************************************************************************)
(* An importer calling ingest_log_entry(db, entry) itself, with a client   *)
(* it got from get_firestore_client.  What the call raises reaches the     *)
(* importer, which may go on to call again.                                *)
(***************************************************************************)
importer_call(entry) ==
    /\ pc = "calling"
    /\ db
    /\ Len(calls) < MaxCalls
    /\ Ingested(entry, ingest_log_entry(entry))
    /\ UNCHANGED <<caller, env_app_id, env_user_id, client_env, faults, example_entries,
                   pc, db, idx, success_count, stderr, exit_code>>

(***************************************************************************)
(* The specification.                                                      *)
(***************************************************************************)
Init ==
    /\ caller \in {"main", "import"}
    /\ env_app_id \in {<< >>, <<"tenant-a">>}
    /\ env_user_id \in {<< >>, <<"alice">>}
    /\ client_env \in {"ok", "ImportError", "Exception"}
    /\ faults \in [FaultIds -> {"ok"} \cup StoreErrors]
    /\ example_entries \in IF caller = "main" THEN SeqsUpTo(Entries, MaxBatch)
                                              ELSE {<< >>}
    /\ pc = IF caller = "main" THEN "main_start" ELSE "connect"
    /\ db = FALSE
    /\ idx = 1
    /\ success_count = 0
    /\ now = 0
    /\ store = << >>
    /\ writes = << >>
    /\ calls = << >>
    /\ stdout = << >>
    /\ stderr = << >>
    /\ exit_code = -1

Next ==
    \/ main_banner
    \/ get_firestore_client
    \/ main_loop
    \/ main_summary
    \/ \E entry \in Entries : importer_call(entry)

Spec == Init /\ [][Next]_vars

(***************************************************************************)
(* Vocabulary of the properties.                                           *)
(***************************************************************************)
Printed(line) == \E n \in 1..Len(stdout) : stdout[n] = line

Contains(line, piece) == \E n \in 1..Len(line) : line[n] = piece

IsResultLine(line) == line[1] \in {"Ingested:", "Failed to ingest"}

ResultLines == SelectSeq(stdout, IsResultLine)

IsSummaryLine(line) == line[1] = "Ingestion complete:"

\* The process has ended, one way or another.
Ended == pc \in {"done", "exited", "crashed"}

\* Call number k returned a value (it was not left by an exception).
Returned(k) == calls[k].result \in {"True", "False"}

\* The write attempts made by call number k.
WritesOf(k) == {n \in 1..Len(writes) : writes[n].call = k}

\* The path the specification gives the document of message_id.
ExpectedPath(message_id) ==
    "artifacts/" \o APP_ID \o "/public/data/knowledge_buckets/" \o message_id

\* The store accepts every write.
Accepting == \A id \in DOMAIN faults : faults[id] = "ok"

(***************************************************************************)
(* Properties.                                                             *)
(***************************************************************************)

\* C1: with neither environment variable set and a client that constructs and
\* accepts writes, main() on the built-in batch ends with exactly one document,
\* at artifacts/default-app-id/public/data/knowledge_buckets/example_001, with
\* user_id "jasonbender-c3x" and app_id "default-app-id", and a success line
\* containing example_001 has been printed.
C1_ExampleRunStored ==
    ( /\ caller = "main"
      /\ env_app_id = << >>
      /\ env_user_id = << >>
      /\ client_env = "ok"
      /\ Accepting
      /\ example_entries = BuiltinExampleEntries
      /\ Ended )
    => LET path == "artifacts/default-app-id/public/data/knowledge_buckets/example_001"
       IN  /\ DOMAIN store = {path}
           /\ store[path].user_id = "jasonbender-c3x"
           /\ store[path].app_id = "default-app-id"
           /\ \E n \in 1..Len(stdout) :
                 /\ stdout[n][1] = "Ingested:"
                 /\ Contains(stdout[n], "example_001")

\* C2: a call of ingest_log_entry on an entry whose write the store fails
\* returns False after printing a line with the message_id and the error;
\* nothing leaves ingest_log_entry, and main(), once it has a client, ends only
\* after calling ingest_log_entry for every entry of the batch.
C2_WriteFailureIsLocal ==
    /\ \A k \in 1..Len(calls) :
          LET id == calls[k].message_id
          IN  StoreFault(id) # "ok"
              => /\ calls[k].result = "False"
                 /\ Printed(FailureLine(id, StoreFault(id)))
    /\ ( /\ caller = "main"
         /\ db
         /\ Ended
         /\ \E n \in 1..Len(example_entries) :
               /\ example_entries[n].message_id # << >>
               /\ StoreFault(example_entries[n].message_id[1]) # "ok" )
       => Len(calls) = Len(example_entries)

\* C3: the exit code is 1 exactly when the client could not be constructed;
\* a run in which it was constructed exits with 0.
C3_ExitCodeReflectsConstructionOnly ==
    (caller = "main" /\ Ended)
    => /\ (exit_code = 1) <=> ~db
       /\ db => exit_code = 0

\* C4: when constructing the client fails, an error line is printed and the
\* process ends with a non-zero status; no ingest_log_entry call and no write
\* is made in that run, before or after.
C4_ConstructionFailureStopsBeforeAnyWrite ==
    client_env # "ok"
    => /\ calls = << >>
       /\ writes = << >>
       /\ DOMAIN store = {}
       /\ ~db
       /\ pc \in {"main_start", "connect", "exited"}
       /\ pc = "exited"
          => /\ exit_code # 0
             /\ exit_code # -1
             /\ \E n \in 1..Len(stdout) :
                   stdout[n][1] \in {"ERROR: google-cloud-firestore not installed",
                                     "ERROR: Failed to initialize Firestore client:"}
             /\ ~ENABLED Next

C4_Witness ==
    /\ pc = "exited"
    /\ client_env = "Exception"
    /\ caller = "main"
    /\ Len(example_entries) > 0
    /\ Printed(<<"ERROR: Failed to initialize Firestore client:", ConstructionError>>)

\* C5: a run of main() with a client ends completed, having printed the summary
\* <successes>/<total>, total the number of entries of the batch and successes
\* the number of ingest_log_entry calls that returned True.
C5_SummaryAlwaysPrinted ==
    (caller = "main" /\ db /\ Ended)
    => /\ pc = "done"
       /\ Printed(SummaryLine(Cardinality({k \in 1..Len(calls) : calls[k].result = "True"}),
                              Len(example_entries)))

C7_IngestTwiceLeavesOneDocument ==
    \A j, k \in 1..Len(calls) :
       ( /\ j < k
         /\ calls[j].entry = calls[k].entry
         /\ calls[k].entry.message_id # << >>
         /\ StoreFault(calls[k].message_id) = "ok" )
       => LET entry == calls[k].entry
              id    == calls[k].message_id
              path  == ExpectedPath(id)
              once  == BuildPayload(entry, id, 0)
          IN  /\ {p \in DOMAIN store : store[p].message_id = id} = {path}
              /\ DOMAIN store[path] = DOMAIN once
              /\ \A key \in DOMAIN once \ {"timestamp", "indexed_at"} :
                    store[path][key] = once[key]

\* C8: every ingest_log_entry call hands the store one document with the keys
\* user_id, app_id, message_id, content, metadata, timestamp and indexed_at
\* (content "" and metadata empty when the entry has none), and with the key
\* vector exactly when the entry has a vector, then equal to it.
C8_PayloadShape ==
    \A k \in 1..Len(calls) :
       \E n \in WritesOf(k) :
          LET entry   == calls[k].entry
              payload == writes[n].payload
              always  == {"user_id", "app_id", "message_id", "content", "metadata",
                          "timestamp", "indexed_at"}
          IN  /\ DOMAIN payload = always \cup (IF entry.vector # << >> THEN {"vector"} ELSE {})
              /\ payload.content = (IF entry.content = << >> THEN "" ELSE entry.content[1])
              /\ payload.metadata = (IF entry.metadata = << >> THEN {} ELSE entry.metadata[1])
              /\ entry.vector # << >> => payload.vector = entry.vector[1]

\* C9: each ingest_log_entry call makes one write attempt and prints one result
\* line, a success line if the write succeeded and a failure line otherwise;
\* main() passes the entries in batch order.
C9_OneWriteOneLinePerCall ==
    /\ \A k \in 1..Len(calls) : Cardinality(WritesOf(k)) = 1
    /\ Len(ResultLines) = Len(calls)
    /\ \A k \in 1..Len(calls) :
          /\ k <= Len(ResultLines)
          /\ ResultLines[k] = (IF calls[k].result = "True"
                                  THEN SuccessLine(calls[k].message_id)
                                  ELSE FailureLine(calls[k].message_id,
                                                   StoreFault(calls[k].message_id)))
    /\ caller = "main"
       => \A k \in 1..Len(calls) : calls[k].entry = example_entries[k]

\* C10: an exception raised in ingest_log_entry before the write (the lookup of
\* the name `firestore` at line 55) is not caught: the call makes no write and
\* prints no result line, and in main() it ends the run there, with no summary
\* line and the later entries not processed.
C10_ExceptionBeforeWritePropagates ==
    /\ Len(ResultLines) = Cardinality({k \in 1..Len(calls) : Returned(k)})
    /\ \A k \in 1..Len(calls) :
          ~Returned(k)
          => /\ WritesOf(k) = {}
             /\ caller = "main"
                => /\ pc = "crashed"
                   /\ exit_code = 1
                   /\ stderr = Traceback(calls[k].result)
                   /\ k = Len(calls)
                   /\ k = idx
                   /\ \A n \in 1..Len(stdout) : ~IsSummaryLine(stdout[n])
                   /\ ~ENABLED Next

C10_Witness ==
    /\ caller = "main"
    /\ pc = "crashed"
    /\ Len(example_entries) = 2
    /\ Len(calls) = 1
    /\ calls[1].result = "NameError"
    /\ calls[1].entry = example_entries[1]
    /\ stderr = Traceback("NameError")

====
